---- MODULE Spec2Model ----
(***************************************************************************)
(* Hourly occupancy analytics (realtime comparison script).                *)
(*                                                                         *)
(* Time values are the Date time values of the script, in whole seconds    *)
(* since 1970-01-01T00:00:00Z (the script's milliseconds divided by 1000). *)
(* Durations, which the script keeps in minutes (slot.duration,            *)
(* stayMinutes) or hours (totalHours), are kept here in seconds, so that   *)
(* all arithmetic is exact: minutes = seconds / 60, hours = seconds / 3600.*)
(***************************************************************************)
EXTENDS Integers, Sequences, FiniteSets, TLC

VARIABLES
    tz,               \* offset of the run's local time zone, minutes east of UTC
    records,          \* the rows handed to calculateHourlyOccupancy
    index,            \* number of rows the forEach has visited
    hourlyOccupancy,  \* dateHour -> [count, totalMinutes, users]
    dailyStats,       \* date -> [totalHours, totalSessions, uniqueUsers]
    allTimeSlots,     \* every slot pushed so far, with its customerName
    timeSlots,        \* the timeSlots of the row visited last
    warnings,         \* the console.warn diagnostics, as [row, kind]
    totalStats,       \* result of calculateTotalStats
    pc                \* "forEach", "convert", "stats", "done"

\* generateComparisonData
VARIABLES
    clock,                 \* the wall clock, as new Date() reads it
    allRecords,            \* the records handed to generateComparisonData
    period,                \* currentDate and the four window bounds
    currentMonthRecords,
    previousMonthRecords,
    heap,                  \* the accumulator objects the passes created
    currentMonthData,      \* references into heap
    previousMonthData,
    currentTotalStats,
    previousTotalStats,
    comparison,
    metadata,
    rpc                    \* position in generateComparisonData

\* processCSV and calculateUserStats (user statistics script)
VARIABLES
    csvRows,          \* the rows of the CSV stream, in order
    rowIndex,         \* number of rows the 'data' handler has seen
    userRecords,      \* the records array of processCSV
    userResult,       \* what the 'end' handler computed, per period
    upc               \* position in processCSV

passVars == <<records, index, hourlyOccupancy, dailyStats, allTimeSlots,
              timeSlots, warnings, totalStats, pc>>

reportVars == <<clock, allRecords, period, currentMonthRecords,
                previousMonthRecords, heap, currentMonthData,
                previousMonthData, currentTotalStats, previousTotalStats,
                comparison, metadata, rpc>>

userVars == <<csvRows, rowIndex, userRecords, userResult, upc>>

vars == <<tz, passVars, reportVars, userVars>>

-----------------------------------------------------------------------------
(* Numbers and dates of the runtime *)

\* The time value of an Invalid Date, and the number NaN.
NaN == -1000000000

SecondsPerMinute == 60
SecondsPerHour == 3600
SecondsPerDay == 86400

IsLeap(y) == (y % 4 = 0 /\ y % 100 # 0) \/ y % 400 = 0

DaysInMonth(y, m) ==
    IF m = 2 THEN (IF IsLeap(y) THEN 29 ELSE 28)
    ELSE IF m \in {4, 6, 9, 11} THEN 30 ELSE 31

\* Days from 1970-01-01 to the first day of year y.
DaysBeforeYear(y) ==
    365 * (y - 1970) + ((y - 1969) \div 4) - ((y - 1901) \div 100)
        + ((y - 1601) \div 400)

RECURSIVE DaysBeforeMonth(_, _)
DaysBeforeMonth(y, m) ==
    IF m = 1 THEN 0 ELSE DaysBeforeMonth(y, m - 1) + DaysInMonth(y, m - 1)

\* Day number (days since 1970-01-01) of the civil date y-m-d.
DaysFromCivil(y, m, d) == DaysBeforeYear(y) + DaysBeforeMonth(y, m) + (d - 1)

\* The civil date <<y, m, d>> of a day number.
CivilFromDays(n) ==
    LET y == CHOOSE yy \in (1970 + n \div 366) .. (1970 + n \div 365) :
                 DaysBeforeYear(yy) <= n /\ n < DaysBeforeYear(yy + 1)
        r == n - DaysBeforeYear(y)
        m == CHOOSE mm \in 1 .. 12 :
                 DaysBeforeMonth(y, mm) <= r
                 /\ r < DaysBeforeMonth(y, mm) + DaysInMonth(y, mm)
    IN  <<y, m, r - DaysBeforeMonth(y, m) + 1>>

\* A timestamp string "YYYY-MM-DD hh:mm:ss +hhmm" of the CSV; off is the
\* string's own UTC offset in minutes.
Ts(y, m, d, hh, mi, ss, off) ==
    [kind |-> "ok", y |-> y, m |-> m, d |-> d, hh |-> hh, mi |-> mi,
     ss |-> ss, off |-> off]

\* A string that is no timestamp, and the empty (or missing) field.
BadTs == [kind |-> "bad", y |-> 0, m |-> 0, d |-> 0, hh |-> 0, mi |-> 0,
          ss |-> 0, off |-> 0]
NoTs == [kind |-> "empty", y |-> 0, m |-> 0, d |-> 0, hh |-> 0, mi |-> 0,
         ss |-> 0, off |-> 0]

\* new Date(dateStr): the time value, NaN (Invalid Date) when unparsable.
parseDateTime(dateStr) ==
    IF dateStr.kind = "ok"
    THEN DaysFromCivil(dateStr.y, dateStr.m, dateStr.d) * SecondsPerDay
         + dateStr.hh * SecondsPerHour + dateStr.mi * SecondsPerMinute
         + dateStr.ss - dateStr.off * SecondsPerMinute
    ELSE NaN

\* timeStr.split(':').map(Number) is modelled as the sequence of its parts,
\* each an integer or NaN; a part that is not there is undefined, and any
\* arithmetic with undefined or NaN gives NaN.  The result is in seconds.
parseStayTime(timeStr) ==
    IF Len(timeStr) < 3 \/ \E i \in 1 .. 3 : timeStr[i] = NaN
    THEN NaN
    ELSE timeStr[1] * SecondsPerHour + timeStr[2] * SecondsPerMinute + timeStr[3]

\* Date.prototype.getHours: the hour of the day on the local clock.
getHours(t, zone) == ((t + zone * SecondsPerMinute) \div SecondsPerHour) % 24

\* setHours(getHours() + 1) that leaves the minutes and seconds as they are.
nextHourUnaligned(t, zone) == t + SecondsPerHour

\* d.setHours(d.getHours() + 1, 0, 0, 0): the next hour boundary of the
\* local clock, strictly after t.
nextHour(t, zone) ==
    ((t + zone * SecondsPerMinute) \div SecondsPerHour + 1) * SecondsPerHour
        - zone * SecondsPerMinute

\* Date.prototype.toISOString: the UTC fields of the time value.  (On an
\* Invalid Date it throws a RangeError; callers test for NaN first.)
toISOString(t) ==
    LET s == t % SecondsPerDay
    IN  [date |-> CivilFromDays(t \div SecondsPerDay),
         hh |-> s \div SecondsPerHour,
         mi |-> (s % SecondsPerHour) \div SecondsPerMinute,
         ss |-> s % SecondsPerMinute]

\* toISOString().split('T')[0]
isoDate(t) == toISOString(t).date

\* The `${date}-${hour padded}` key of a slot.
dateHourKey(t, zone) == <<isoDate(t), getHours(t, zone)>>

\* makeSlot with the slot's end not clipped to the checkout.
makeSlotUnclipped(current, actualEnd, zone) ==
    [date |-> isoDate(current),
     hour |-> getHours(current, zone),
     dateHour |-> dateHourKey(current, zone),
     duration |-> nextHour(current, zone) - current,
     checkin |-> toISOString(current),
     checkout |-> toISOString(nextHour(current, zone))]

\* One slot object of generateTimeSlots, for the cursor position current.
makeSlot(current, actualEnd, zone) ==
    [date |-> isoDate(current),
     hour |-> getHours(current, zone),
     dateHour |-> dateHourKey(current, zone),
     duration |-> actualEnd - current,
     checkin |-> toISOString(current),
     checkout |-> toISOString(actualEnd)]

\* The while loop of generateTimeSlots, from the cursor position current.
\* A comparison with an Invalid Date is false, so the loop does not run.
RECURSIVE slotsFrom(_, _, _)
slotsFrom(current, checkout, zone) ==
    IF current = NaN \/ checkout = NaN \/ ~(current < checkout)
    THEN <<>>
    ELSE LET slotEnd == nextHour(current, zone)
             actualEnd == IF slotEnd > checkout THEN checkout ELSE slotEnd
             duration == actualEnd - current
         IN  (IF duration > 0
              THEN <<makeSlot(current, actualEnd, zone)>>
              ELSE <<>>) \o slotsFrom(slotEnd, checkout, zone)

generateTimeSlots(checkin, checkout, zone) == slotsFrom(checkin, checkout, zone)

-----------------------------------------------------------------------------
(* calculateHourlyOccupancy *)

\* Number addition, with NaN absorbing.
numAdd(a, b) == IF a = NaN \/ b = NaN THEN NaN ELSE a + b

\* The accumulators of one pass, before any row: {}, {}, [] (and no warning).
emptyPass ==
    [hourlyOccupancy |-> [k \in {} |-> 0],
     dailyStats |-> [k \in {} |-> 0],
     allTimeSlots |-> <<>>,
     timeSlots |-> <<>>,
     warnings |-> <<>>]

\* console.warn of row index + 2; kind is "skip" (the early return) or
\* "error" (the catch block).
warn(acc, i, kind) ==
    [acc EXCEPT !.warnings = Append(@, [row |-> i + 2, kind |-> kind])]

\* countSlot without users.push: the member list stays as it was.
countSlotNoMember(h, slot, name) ==
    LET k == slot.dateHour
        old == IF k \in DOMAIN h
               THEN h[k]
               ELSE [count |-> 0, totalMinutes |-> 0, users |-> <<>>]
        new == [count |-> old.count + 1,
                totalMinutes |-> old.totalMinutes + slot.duration,
                users |-> old.users]
    IN  [x \in DOMAIN h \cup {k} |-> IF x = k THEN new ELSE h[x]]

\* countSlot with totalMinutes assigned (=) where the script adds (+=).
countSlotAssign(h, slot, name) ==
    LET k == slot.dateHour
        old == IF k \in DOMAIN h
               THEN h[k]
               ELSE [count |-> 0, totalMinutes |-> 0, users |-> <<>>]
        new == [count |-> old.count + 1,
                totalMinutes |-> slot.duration,
                users |-> Append(old.users,
                                 [name |-> name, duration |-> slot.duration])]
    IN  [x \in DOMAIN h \cup {k} |-> IF x = k THEN new ELSE h[x]]

\* The body of timeSlots.forEach for one slot.
countSlot(h, slot, name) ==
    LET k == slot.dateHour
        old == IF k \in DOMAIN h
               THEN h[k]
               ELSE [count |-> 0, totalMinutes |-> 0, users |-> <<>>]
        new == [count |-> old.count + 1,
                totalMinutes |-> old.totalMinutes + slot.duration,
                users |-> Append(old.users,
                                 [name |-> name, duration |-> slot.duration])]
    IN  [x \in DOMAIN h \cup {k} |-> IF x = k THEN new ELSE h[x]]

RECURSIVE countSlots(_, _, _)
countSlots(h, slots, name) ==
    IF slots = <<>> THEN h
    ELSE countSlots(countSlot(h, Head(slots), name), Tail(slots), name)

\* allTimeSlots.push(...timeSlots.map(...))
tagSlots(slots, name, stayMinutes) ==
    [j \in 1 .. Len(slots) |->
        [slot |-> slots[j], customerName |-> name,
         originalStayMinutes |-> stayMinutes]]

\* countDay without the test for an existing entry: the day starts afresh.
countDayAfresh(d, date, name, stayMinutes) ==
    [x \in DOMAIN d \cup {date} |->
        IF x = date
        THEN [totalHours |-> stayMinutes, totalSessions |-> 1,
              uniqueUsers |-> {name}]
        ELSE d[x]]

\* The daily statistics of one visit, keyed by checkin.toISOString()'s date.
countDay(d, date, name, stayMinutes) ==
    LET old == IF date \in DOMAIN d
               THEN d[date]
               ELSE [totalHours |-> 0, totalSessions |-> 0, uniqueUsers |-> {}]
        new == [totalHours |-> numAdd(old.totalHours, stayMinutes),
                totalSessions |-> old.totalSessions + 1,
                uniqueUsers |-> old.uniqueUsers \cup {name}]
    IN  [x \in DOMAIN d \cup {date} |-> IF x = date THEN new ELSE d[x]]

\* One call of the records.forEach callback, on row number i (from 0).
\* The assignment to the const checkout throws a TypeError, and
\* toISOString of an Invalid Date a RangeError; both end in the catch block.
processRecord(acc, record, i, zone) ==
    LET checkin == parseDateTime(record.checkin)
        hasCheckout == record.checkout.kind # "empty"
        checkout == IF hasCheckout THEN parseDateTime(record.checkout) ELSE NaN
        stayMinutes == parseStayTime(record.stay)
    IN  IF ~hasCheckout /\ stayMinutes # NaN /\ stayMinutes > 0
        THEN warn([acc EXCEPT !.timeSlots = <<>>], i, "error")
        ELSE IF ~hasCheckout \/ (stayMinutes # NaN /\ stayMinutes <= 0)
        THEN warn([acc EXCEPT !.timeSlots = <<>>], i, "skip")
        ELSE LET slots == generateTimeSlots(checkin, checkout, zone)
                 counted ==
                     [acc EXCEPT
                        !.timeSlots = slots,
                        !.allTimeSlots =
                            @ \o tagSlots(slots, record.name, stayMinutes),
                        !.hourlyOccupancy = countSlots(@, slots, record.name)]
             IN  IF checkin = NaN
                 THEN warn(counted, i, "error")
                 ELSE [counted EXCEPT
                         !.dailyStats =
                             countDay(@, isoDate(checkin), record.name,
                                      stayMinutes)]

\* dailyStats[date].uniqueUsers = dailyStats[date].uniqueUsers.size
convertUniqueUsers(d) ==
    [x \in DOMAIN d |-> [d[x] EXCEPT !.uniqueUsers = Cardinality(@)]]

RECURSIVE forEachRecord(_, _, _, _)
forEachRecord(acc, recs, i, zone) ==
    IF i >= Len(recs) THEN acc
    ELSE forEachRecord(processRecord(acc, recs[i + 1], i, zone), recs, i + 1, zone)

\* The value calculateHourlyOccupancy(recs) returns.
calculateHourlyOccupancy(recs, zone) ==
    LET acc == forEachRecord(emptyPass, recs, 0, zone)
    IN  [hourlyOccupancy |-> acc.hourlyOccupancy,
         dailyStats |-> convertUniqueUsers(acc.dailyStats),
         allTimeSlots |-> acc.allTimeSlots]

-----------------------------------------------------------------------------
(* calculateTotalStats *)

\* Math.floor(num / den) in the place of Math.round.
mathFloor(num, den) == num \div den

\* Math.round(num / den) for den > 0: the nearest integer, a half going up.
mathRound(num, den) == (2 * num + den) \div (2 * den)

RECURSIVE sumOver(_, _)
sumOver(f, S) ==
    IF S = {} THEN 0
    ELSE LET x == CHOOSE y \in S : TRUE
         IN  f[x] + sumOver(f, S \ {x})

\* Sum of day.totalHours over the days, in seconds; NaN once any day is NaN.
sumHours(d) ==
    IF \E x \in DOMAIN d : d[x].totalHours = NaN THEN NaN
    ELSE sumOver([x \in DOMAIN d |-> d[x].totalHours], DOMAIN d)

\* Math.max(...counts, 0)
maxCount(h) ==
    IF DOMAIN h = {} THEN 0
    ELSE CHOOSE c \in {h[k].count : k \in DOMAIN h} \cup {0} :
             \A k \in DOMAIN h : h[k].count <= c

\* Values the script rounds to one decimal (Math.round(x * 10) / 10) are
\* kept as integer tenths: totalHours, manHours, averageOccupancy.
calculateTotalStats(monthData, recs) ==
    LET h == monthData.hourlyOccupancy
        d == monthData.dailyStats
        totalHours == sumHours(d)
        n == Cardinality(DOMAIN h)
        sumCount == sumOver([k \in DOMAIN h |-> h[k].count], DOMAIN h)
    IN  [totalHours |-> IF totalHours = NaN THEN NaN
                        ELSE mathRound(totalHours * 10, SecondsPerHour),
         manHours |-> mathRound(Len(recs) * 10, 1),
         uniqueUsers |-> Cardinality({recs[j].name : j \in 1 .. Len(recs)}),
         totalSessions |-> Len(recs),
         peakOccupancy |-> maxCount(h),
         averageOccupancy |-> IF n > 0 THEN mathRound(sumCount * 10, n) ELSE 0,
         activeDays |-> Cardinality(DOMAIN d)]

-----------------------------------------------------------------------------
(* Inputs *)

\* Longest record list of a run.
MaxRecords == 2

\* Offsets of the run's local time zone (minutes east of UTC): UTC, Tokyo,
\* New York (winter), Kolkata.
Zones == {0, 540, -300, 330}

\* A CSV row: 顧客名, チェックイン日時, チェックアウト日時, 滞在時間.
Row(name, checkin, checkout, stay) ==
    [name |-> name, checkin |-> checkin, checkout |-> checkout, stay |-> stay]

\* Well-formed rows, whose checkout is checkin + stay.
GoodRows ==
    { Row("a", Ts(2024, 3, 29, 23, 33, 42, 540), Ts(2024, 3, 30, 1, 3, 42, 540),
          <<1, 30, 0>>),
      Row("b", Ts(2024, 3, 29, 23, 33, 42, 540), Ts(2024, 3, 30, 0, 3, 42, 540),
          <<0, 30, 0>>),
      Row("a", Ts(2024, 3, 30, 8, 10, 0, 540), Ts(2024, 3, 30, 8, 40, 0, 540),
          <<0, 30, 0>>),
      Row("b", Ts(2024, 3, 30, 8, 10, 0, 540), Ts(2024, 3, 30, 11, 50, 0, 540),
          <<3, 40, 0>>),
      Row("a", Ts(2024, 3, 31, 23, 50, 0, 540), Ts(2024, 4, 1, 0, 20, 0, 540),
          <<0, 30, 0>>) }

\* Rows with no checkout timestamp.
OpenRows ==
    { Row("a", Ts(2024, 3, 30, 8, 10, 0, 540), NoTs, <<0, 30, 0>>),
      Row("b", Ts(2024, 3, 30, 8, 10, 0, 540), NoTs, <<NaN>>) }

\* Rows with a malformed timestamp, or with an unparsable, zero or negative
\* stay duration.
BadRows ==
    { Row("a", BadTs, Ts(2024, 3, 30, 8, 40, 0, 540), <<0, 30, 0>>),
      Row("b", Ts(2024, 3, 30, 8, 10, 0, 540), BadTs, <<0, 30, 0>>),
      Row("b", Ts(2024, 3, 30, 8, 10, 0, 540), Ts(2024, 3, 30, 8, 40, 0, 540),
          <<NaN>>),
      Row("a", Ts(2024, 3, 30, 8, 10, 0, 540), Ts(2024, 3, 30, 8, 10, 0, 540),
          <<0, 0, 0>>),
      Row("b", Ts(2024, 3, 30, 8, 10, 0, 540), Ts(2024, 3, 30, 7, 10, 0, 540),
          <<-1, 0, 0>>) }

\* A visit of 24 hours, checked in at 05:40 in Kolkata.
LongRows ==
    { Row("a", Ts(2024, 3, 30, 5, 40, 0, 330), Ts(2024, 3, 31, 5, 40, 0, 330),
          <<24, 0, 0>>) }

\* A row whose 滞在時間 is not the time from checkin to checkout.
MismatchedRows ==
    { Row("b", Ts(2024, 3, 30, 8, 10, 0, 540), Ts(2024, 3, 30, 8, 40, 0, 540),
          <<1, 0, 0>>) }

Rows == GoodRows \cup OpenRows \cup BadRows \cup LongRows \cup MismatchedRows

RecordLists == UNION {[1 .. n -> Rows] : n \in 0 .. MaxRecords}

-----------------------------------------------------------------------------
(* The run: calculateHourlyOccupancy(records), then calculateTotalStats *)

noStats ==
    [totalHours |-> 0, manHours |-> 0, uniqueUsers |-> 0, totalSessions |-> 0,
     peakOccupancy |-> 0, averageOccupancy |-> 0, activeDays |-> 0]

\* generateComparisonData is not running.
reportIdle ==
    /\ clock = 0
    /\ allRecords = <<>>
    /\ period = <<>>
    /\ currentMonthRecords = <<>>
    /\ previousMonthRecords = <<>>
    /\ heap = <<>>
    /\ currentMonthData = 0
    /\ previousMonthData = 0
    /\ currentTotalStats = noStats
    /\ previousTotalStats = noStats
    /\ comparison = <<>>
    /\ metadata = <<>>
    /\ rpc = "off"

\* processCSV is not running.
usersIdle ==
    /\ csvRows = <<>>
    /\ rowIndex = 0
    /\ userRecords = <<>>
    /\ userResult = <<>>
    /\ upc = "off"

Init ==
    /\ reportIdle
    /\ usersIdle
    /\ tz \in Zones
    /\ records \in RecordLists
    /\ index = 0
    /\ hourlyOccupancy = emptyPass.hourlyOccupancy
    /\ dailyStats = emptyPass.dailyStats
    /\ allTimeSlots = emptyPass.allTimeSlots
    /\ timeSlots = emptyPass.timeSlots
    /\ warnings = emptyPass.warnings
    /\ totalStats = noStats
    /\ pc = "forEach"

\* The accumulators of the running pass.
pass ==
    [hourlyOccupancy |-> hourlyOccupancy, dailyStats |-> dailyStats,
     allTimeSlots |-> allTimeSlots, timeSlots |-> timeSlots,
     warnings |-> warnings]

\* records.forEach visits the next row.
ForEachRecord ==
    /\ pc = "forEach"
    /\ index < Len(records)
    /\ LET acc == processRecord(pass, records[index + 1], index, tz)
       IN  /\ hourlyOccupancy' = acc.hourlyOccupancy
           /\ dailyStats' = acc.dailyStats
           /\ allTimeSlots' = acc.allTimeSlots
           /\ timeSlots' = acc.timeSlots
           /\ warnings' = acc.warnings
    /\ index' = index + 1
    /\ UNCHANGED <<tz, records, totalStats, pc, reportVars, userVars>>

\* After the last row: the unique-user sets become their sizes, and
\* calculateHourlyOccupancy returns.
ConvertUniqueUsers ==
    /\ pc = "forEach"
    /\ index = Len(records)
    /\ dailyStats' = convertUniqueUsers(dailyStats)
    /\ pc' = "stats"
    /\ UNCHANGED <<tz, records, index, hourlyOccupancy, allTimeSlots,
                   timeSlots, warnings, totalStats, reportVars, userVars>>

\* calculateTotalStats(monthData, records)
TotalStats ==
    /\ pc = "stats"
    /\ totalStats' = calculateTotalStats(pass, records)
    /\ pc' = "done"
    /\ UNCHANGED <<tz, records, index, hourlyOccupancy, dailyStats,
                   allTimeSlots, timeSlots, warnings, reportVars, userVars>>

Next == ForEachRecord \/ ConvertUniqueUsers \/ TotalStats

Spec == Init /\ [][Next]_vars

-----------------------------------------------------------------------------
(* Vocabulary of the properties *)

\* The row the forEach visited last, and its parsed fields.
lastRow == records[index]
lastCheckin == parseDateTime(lastRow.checkin)
lastCheckout == parseDateTime(lastRow.checkout)
lastStay == parseStayTime(lastRow.stay)

\* The instant an ISO string of a slot denotes.
isoTime(iso) ==
    DaysFromCivil(iso.date[1], iso.date[2], iso.date[3]) * SecondsPerDay
        + iso.hh * SecondsPerHour + iso.mi * SecondsPerMinute + iso.ss

\* Number of the local clock hour (hours of local time since 1970) holding t.
localHourNumber(t, zone) == (t + zone * SecondsPerMinute) \div SecondsPerHour

\* Calendar date of t on the local clock.
localDate(t, zone) ==
    CivilFromDays((t + zone * SecondsPerMinute) \div SecondsPerDay)

RECURSIVE sumDurations(_)
sumDurations(slots) ==
    IF slots = <<>> THEN 0
    ELSE Head(slots).duration + sumDurations(Tail(slots))

\* The last row was a visit with checkin < checkout, both well-formed, and
\* the callback called generateTimeSlots on it.
lastDecomposed ==
    /\ index > 0
    /\ lastRow.checkin.kind = "ok"
    /\ lastRow.checkout.kind = "ok"
    /\ lastCheckin < lastCheckout
    /\ ~(lastStay # NaN /\ lastStay <= 0)

-----------------------------------------------------------------------------
(* C1 *)

\* C1: for checkin < checkout the slots of generateTimeSlots tile
\* [checkin, checkout): the first slot starts at checkin, each later slot
\* starts where the previous one ended, the last slot ends at checkout, and
\* the durations sum to checkout - checkin.
C1_SlotsTileVisit ==
    lastDecomposed =>
        /\ Len(timeSlots) >= 1
        /\ timeSlots[1].checkin = toISOString(lastCheckin)
        /\ \A j \in 1 .. Len(timeSlots) - 1 :
               timeSlots[j + 1].checkin = timeSlots[j].checkout
        /\ timeSlots[Len(timeSlots)].checkout = toISOString(lastCheckout)
        /\ \A j \in 1 .. Len(timeSlots) :
               timeSlots[j].duration
                   = isoTime(timeSlots[j].checkout) - isoTime(timeSlots[j].checkin)
        /\ sumDurations(timeSlots) = lastCheckout - lastCheckin

\* A visit that crosses two hour boundaries and ends inside an hour.
C1_Witness ==
    /\ lastDecomposed
    /\ Len(timeSlots) >= 3
    /\ timeSlots[Len(timeSlots)].duration < SecondsPerHour
    /\ timeSlots[1].duration < SecondsPerHour

-----------------------------------------------------------------------------
(* C2 *)

-----------------------------------------------------------------------------
(* C3 *)

\* C3: the bucket key of every slot names the calendar hour holding the
\* slot, date and hour read from the same clock (the local one, whose hour
\* boundaries cut the slots), in every time zone of the run.
C3_KeyNamesSlotHour ==
    \A j \in 1 .. Len(timeSlots) :
        LET s == isoTime(timeSlots[j].checkin)
        IN  /\ timeSlots[j].dateHour = <<localDate(s, tz), getHours(s, tz)>>
            /\ timeSlots[j].date = localDate(s, tz)
            /\ timeSlots[j].hour = getHours(s, tz)

-----------------------------------------------------------------------------
(* C4 *)

\* C4: a row with no checkout timestamp and a stay > 0 is aggregated with
\* checkout = checkin + stay: its slots are in the buckets and its session
\* in the daily statistics of its checkin date.
C4_CheckoutDerivedFromStay ==
    ( /\ index > 0
      /\ lastRow.checkin.kind = "ok"
      /\ lastRow.checkout.kind = "empty"
      /\ lastStay # NaN
      /\ lastStay > 0 )
    => /\ timeSlots
            = generateTimeSlots(lastCheckin, lastCheckin + lastStay, tz)
       /\ \A j \in 1 .. Len(timeSlots) :
              timeSlots[j].dateHour \in DOMAIN hourlyOccupancy
       /\ isoDate(lastCheckin) \in DOMAIN dailyStats
       /\ dailyStats[isoDate(lastCheckin)].totalSessions >= 1

-----------------------------------------------------------------------------
(* C5 *)

\* The record list in the order p.
permute(recs, p) == [j \in 1 .. Len(recs) |-> recs[p[j]]]

\* Number of positions of seq holding e.
occurrences(seq, e) == Cardinality({j \in 1 .. Len(seq) : seq[j] = e})

\* Two lists with the same members, each as many times.
sameMembers(s1, s2) ==
    /\ Len(s1) = Len(s2)
    /\ \A j \in 1 .. Len(s1) : occurrences(s1, s1[j]) = occurrences(s2, s1[j])

\* C5 as claimed: every permutation of the records gives identical buckets
\* (member lists included) and identical daily statistics.
C5_OrderIndependentIdentical ==
    pc = "done" =>
        \A p \in Permutations(1 .. Len(records)) :
            LET other == calculateHourlyOccupancy(permute(records, p), tz)
            IN  /\ other.hourlyOccupancy = hourlyOccupancy
                /\ other.dailyStats = dailyStats

\* C5 as amended: every permutation of the records gives the same bucket
\* keys, per key the same count, the same summed duration and the same
\* members in its list (in the order of the rows), and identical daily
\* statistics.
C5_OrderIndependentUpToListOrder ==
    pc = "done" =>
        \A p \in Permutations(1 .. Len(records)) :
            LET other == calculateHourlyOccupancy(permute(records, p), tz)
            IN  /\ DOMAIN other.hourlyOccupancy = DOMAIN hourlyOccupancy
                /\ \A k \in DOMAIN hourlyOccupancy :
                       /\ other.hourlyOccupancy[k].count
                              = hourlyOccupancy[k].count
                       /\ other.hourlyOccupancy[k].totalMinutes
                              = hourlyOccupancy[k].totalMinutes
                       /\ sameMembers(other.hourlyOccupancy[k].users,
                                      hourlyOccupancy[k].users)
                /\ other.dailyStats = dailyStats

\* Two different visits met in one bucket, with different durations there.
C5_Witness ==
    /\ pc = "done"
    /\ Len(records) >= 2
    /\ \E k \in DOMAIN hourlyOccupancy :
           /\ hourlyOccupancy[k].count >= 2
           /\ hourlyOccupancy[k].users[1] # hourlyOccupancy[k].users[2]
    /\ \E d \in DOMAIN dailyStats : dailyStats[d].totalSessions >= 2

-----------------------------------------------------------------------------
(* C6 *)

\* Row i (from 1) was aggregated: it ended in no warning.
aggregated(i) == \A j \in 1 .. Len(warnings) : warnings[j].row # i + 1

\* The rows visited so far that were aggregated with checkin date d (the
\* date of the checkin's ISO string).
visitsOn(d) ==
    {i \in 1 .. index :
        aggregated(i) /\ isoDate(parseDateTime(records[i].checkin)) = d}

RECURSIVE sumStay(_)
sumStay(S) ==
    IF S = {} THEN 0
    ELSE LET i == CHOOSE j \in S : TRUE
         IN  numAdd(parseStayTime(records[i].stay), sumStay(S \ {i}))

-----------------------------------------------------------------------------
(* C7 *)

\* A row with a malformed checkin or checkout timestamp, or with an
\* unparsable or non-positive stay duration.
malformed(r) ==
    \/ r.checkin.kind = "bad"
    \/ r.checkout.kind = "bad"
    \/ parseStayTime(r.stay) = NaN
    \/ parseStayTime(r.stay) <= 0

removeAt(recs, i) == SubSeq(recs, 1, i - 1) \o SubSeq(recs, i + 1, Len(recs))

\* C7: a malformed row is dropped as a whole: the final buckets and daily
\* statistics are those of the same input without the row, and no metric
\* is undefined.
C7_MalformedRowDropped ==
    pc = "done" =>
        /\ \A i \in 1 .. Len(records) :
               malformed(records[i]) =>
                   LET other ==
                           calculateHourlyOccupancy(removeAt(records, i), tz)
                   IN  /\ other.hourlyOccupancy = hourlyOccupancy
                       /\ other.dailyStats = dailyStats
        /\ \A d \in DOMAIN dailyStats : dailyStats[d].totalHours # NaN
        /\ totalStats.totalHours # NaN

-----------------------------------------------------------------------------
(* C8 *)

\* C8: totalSessions (and manHours) is the number of valid records: a row
\* the aggregation pass dropped with a diagnostic is not counted.
C8_SessionsCountValidRecords ==
    pc = "done" =>
        /\ totalStats.totalSessions = Len(records) - Len(warnings)
        /\ totalStats.manHours = 10 * (Len(records) - Len(warnings))

-----------------------------------------------------------------------------
(* C9 *)

bucketCounts == {hourlyOccupancy[k].count : k \in DOMAIN hourlyOccupancy}

\* C9: peakOccupancy is the largest bucket count and averageOccupancy the
\* mean bucket count over the materialized buckets, rounded to one decimal
\* with a half going away from zero (averageOccupancy is kept in tenths);
\* both are 0 when there is no bucket.
C9_PeakAndAverage ==
    pc = "done" =>
        LET n == Cardinality(DOMAIN hourlyOccupancy)
            total == sumOver([k \in DOMAIN hourlyOccupancy |->
                                 hourlyOccupancy[k].count],
                             DOMAIN hourlyOccupancy)
            avg == totalStats.averageOccupancy
        IN  IF n = 0
            THEN totalStats.peakOccupancy = 0 /\ avg = 0
            ELSE /\ totalStats.peakOccupancy \in bucketCounts
                 /\ \A c \in bucketCounts : c <= totalStats.peakOccupancy
                 /\ avg >= 0
                 /\ -n <= 2 * (10 * total - avg * n)
                 /\ 2 * (10 * total - avg * n) < n

\* The mean is exactly halfway between two tenths (1.25), and the counts
\* differ between buckets.
C9_Witness ==
    /\ pc = "done"
    /\ Cardinality(bucketCounts) >= 2
    /\ LET n == Cardinality(DOMAIN hourlyOccupancy)
           total == sumOver([k \in DOMAIN hourlyOccupancy |->
                                hourlyOccupancy[k].count],
                            DOMAIN hourlyOccupancy)
       IN  2 * (10 * total - totalStats.averageOccupancy * n) = -n

-----------------------------------------------------------------------------
(* C10 *)

\* The only record is one visit of positive duration: a well-formed
\* checkin, a stay > 0, and a checkout that is absent (to be derived) or
\* equal to checkin + stay.
singleVisit ==
    /\ Len(records) = 1
    /\ records[1].checkin.kind = "ok"
    /\ parseStayTime(records[1].stay) # NaN
    /\ parseStayTime(records[1].stay) > 0
    /\ \/ records[1].checkout.kind = "empty"
       \/ /\ records[1].checkout.kind = "ok"
          /\ parseDateTime(records[1].checkout)
                 = parseDateTime(records[1].checkin)
                       + parseStayTime(records[1].stay)

\* C10: a period whose only record is one visit of positive duration has
\* peakOccupancy 1, averageOccupancy 1.0, totalSessions 1, uniqueUsers 1 and
\* activeDays 1.
C10_SingleVisitSummary ==
    (pc = "done" /\ singleVisit) =>
        /\ totalStats.peakOccupancy = 1
        /\ totalStats.averageOccupancy = 10
        /\ totalStats.totalSessions = 1
        /\ totalStats.uniqueUsers = 1
        /\ totalStats.activeDays = 1

-----------------------------------------------------------------------------
(* calculateComparison *)

\* The string of a number.  Strings are kept as [prefix, num, suffix], the
\* concatenation of the three; num is the text of a number given in tenths:
\* an optional "-", the integer part and, unless it is 0, one decimal.
\* Zero, negative zero included, prints as "0"; NaN prints as "NaN".
numberString(x10) ==
    IF x10 = NaN
    THEN [kind |-> "NaN", neg |-> FALSE, int |-> 0, frac |-> 0]
    ELSE LET a == IF x10 < 0 THEN -x10 ELSE x10
         IN  [kind |-> "num", neg |-> x10 < 0, int |-> a \div 10,
              frac |-> a % 10]

\* The character ∞ of the literal '+∞%'.
infinitySign == [kind |-> "infinity", neg |-> FALSE, int |-> 0, frac |-> 0]

\* Math.round(num / den) for any den # 0.  The quotient is exact here; the
\* script's floating-point quotient can fall on either side of an exact
\* half, so the summaries below keep clear of such ties.
mathRoundRatio(num, den) ==
    IF den > 0 THEN mathRound(num, den) ELSE mathRound(-num, -den)

\* calculateChange without the test for a zero reference that has a
\* positive current value.
calculateChangeNoInfinity(curr, prev) ==
    IF prev = 0
    THEN [prefix |-> "", num |-> numberString(0), suffix |-> "%"]
    ELSE IF prev = NaN \/ curr = NaN
    THEN [prefix |-> "", num |-> numberString(NaN), suffix |-> "%"]
    ELSE [prefix |-> IF (curr - prev) * prev >= 0 THEN "+" ELSE "",
          num |-> numberString(mathRoundRatio((curr - prev) * 1000, prev)),
          suffix |-> "%"]

\* calculateChange without the test prev === 0: 0 / 0 is NaN and x / 0 is
\* Infinity.
calculateChangeDivides(curr, prev) ==
    IF prev = NaN \/ curr = NaN \/ (prev = 0 /\ curr = 0)
    THEN [prefix |-> "", num |-> numberString(NaN), suffix |-> "%"]
    ELSE IF prev = 0
    THEN [prefix |-> IF curr > 0 THEN "+" ELSE "", num |-> infinitySign,
          suffix |-> "%"]
    ELSE [prefix |-> IF (curr - prev) * prev >= 0 THEN "+" ELSE "",
          num |-> numberString(mathRoundRatio((curr - prev) * 1000, prev)),
          suffix |-> "%"]

\* calculateChange(curr, prev); both values are in the same unit (tenths).
calculateChange(curr, prev) ==
    IF prev = 0
    THEN IF curr # NaN /\ curr > 0
         THEN [prefix |-> "+", num |-> infinitySign, suffix |-> "%"]
         ELSE [prefix |-> "", num |-> numberString(0), suffix |-> "%"]
    ELSE IF prev = NaN \/ curr = NaN
    THEN [prefix |-> "", num |-> numberString(NaN), suffix |-> "%"]
    ELSE [prefix |-> IF (curr - prev) * prev >= 0 THEN "+" ELSE "",
          num |-> numberString(mathRoundRatio((curr - prev) * 1000, prev)),
          suffix |-> "%"]

\* calculateDifference with '+' only for a positive difference.
calculateDifferencePositive(curr, prev) ==
    [prefix |-> IF curr - prev > 0 THEN "+" ELSE "",
     num |-> numberString((curr - prev) * 10),
     suffix |-> ""]

\* calculateDifference(curr, prev), on integers.
calculateDifference(curr, prev) ==
    [prefix |-> IF curr - prev >= 0 THEN "+" ELSE "",
     num |-> numberString((curr - prev) * 10),
     suffix |-> ""]

calculateComparison(current, previous) ==
    [totalHoursChange |->
         calculateChange(current.totalHours, previous.totalHours),
     manHoursChange |-> calculateChange(current.manHours, previous.manHours),
     uniqueUsersChange |->
         calculateDifference(current.uniqueUsers, previous.uniqueUsers),
     totalSessionsChange |->
         calculateDifference(current.totalSessions, previous.totalSessions),
     peakOccupancyChange |->
         calculateDifference(current.peakOccupancy, previous.peakOccupancy),
     averageOccupancyChange |->
         calculateChange(current.averageOccupancy, previous.averageOccupancy)]

\* calculateHourlyOccupancy is not running.
passIdle ==
    /\ records = <<>>
    /\ index = 0
    /\ hourlyOccupancy = emptyPass.hourlyOccupancy
    /\ dailyStats = emptyPass.dailyStats
    /\ allTimeSlots = emptyPass.allTimeSlots
    /\ timeSlots = emptyPass.timeSlots
    /\ warnings = emptyPass.warnings
    /\ totalStats = noStats
    /\ pc = "off"

\* A period summary: hours in tenths, sessions, users, peak, average in
\* tenths, active days.
Summary(hours10, sessions, users, peak, average10, days) ==
    [totalHours |-> hours10, manHours |-> sessions * 10,
     uniqueUsers |-> users, totalSessions |-> sessions,
     peakOccupancy |-> peak, averageOccupancy |-> average10,
     activeDays |-> days]

\* Summaries of periods: empty, 100.0 h, 50.0 h, 1000.0 h, 999.9 h, 40.0 h,
\* 39.8 h, and one whose totalHours is NaN.
Summaries ==
    { Summary(0, 0, 0, 0, 0, 0),
      Summary(1000, 12, 12, 3, 15, 10),
      Summary(500, 9, 9, 2, 12, 8),
      Summary(10000, 120, 40, 5, 21, 30),
      Summary(9999, 121, 38, 6, 20, 30),
      Summary(400, 8, 8, 2, 11, 6),
      Summary(398, 3, 3, 1, 10, 3),
      Summary(NaN, 2, 2, 1, 10, 2) }

\* const comparison = calculateComparison(currentTotalStats, previousTotalStats)
Compare ==
    /\ rpc = "compare"
    /\ comparison' = calculateComparison(currentTotalStats, previousTotalStats)
    /\ rpc' = "return"
    /\ UNCHANGED <<tz, passVars, userVars, clock, allRecords, period,
                   currentMonthRecords, previousMonthRecords, heap,
                   currentMonthData, previousMonthData, currentTotalStats,
                   previousTotalStats, metadata>>

\* calculateComparison applied to two period summaries.
InitCompare ==
    /\ passIdle
    /\ usersIdle
    /\ tz \in Zones
    /\ clock = 0
    /\ allRecords = <<>>
    /\ period = <<>>
    /\ currentMonthRecords = <<>>
    /\ previousMonthRecords = <<>>
    /\ heap = <<>>
    /\ currentMonthData = 0
    /\ previousMonthData = 0
    /\ currentTotalStats \in Summaries
    /\ previousTotalStats \in Summaries
    /\ comparison = <<>>
    /\ metadata = <<>>
    /\ rpc = "compare"

NextCompare == Compare

SpecCompare == InitCompare /\ [][NextCompare]_vars

-----------------------------------------------------------------------------
(* C12 *)

percentMetrics == {"totalHours", "manHours", "averageOccupancy"}

changeOf(metric) ==
    IF metric = "totalHours" THEN comparison.totalHoursChange
    ELSE IF metric = "manHours" THEN comparison.manHoursChange
    ELSE comparison.averageOccupancyChange

\* C12: for totalHours, manHours and averageOccupancy the delta string is
\* exactly "+∞%" when the reference value is 0 and the current value is
\* > 0, and exactly "0%" when both are 0.
C12_ZeroReference ==
    rpc = "return" =>
        \A metric \in percentMetrics :
            LET curr == currentTotalStats[metric]
                prev == previousTotalStats[metric]
            IN  /\ (prev = 0 /\ curr # NaN /\ curr > 0) =>
                       changeOf(metric)
                           = [prefix |-> "+", num |-> infinitySign,
                              suffix |-> "%"]
                /\ (prev = 0 /\ curr = 0) =>
                       changeOf(metric)
                           = [prefix |-> "", num |-> numberString(0),
                              suffix |-> "%"]

\* A comparison of a non-empty period with an empty reference period.
C12_Witness ==
    /\ rpc = "return"
    /\ previousTotalStats.totalHours = 0
    /\ currentTotalStats.totalHours # NaN
    /\ currentTotalStats.totalHours > 0
    /\ previousTotalStats.averageOccupancy = 0
    /\ currentTotalStats.averageOccupancy > 0

-----------------------------------------------------------------------------
(* C13 *)

\* The number a number string displays, in tenths.
displayed(num) ==
    IF num.neg THEN -(num.int * 10 + num.frac) ELSE num.int * 10 + num.frac

absValue(x) == IF x < 0 THEN -x ELSE x

\* C13: for a reference value other than 0 the delta string is
\* (curr - prev) / prev * 100 rounded to the nearest 0.1 and followed by
\* "%", with a leading "+" whenever the displayed value is non-negative and
\* a leading "-" only when it is negative; 100 vs 50 gives "+100%", 0 vs 50
\* gives "-100%", equal values give "+0%".
C13_SignedRoundedPercent ==
    rpc = "return" =>
        \A metric \in percentMetrics :
            LET curr == currentTotalStats[metric]
                prev == previousTotalStats[metric]
                str == changeOf(metric)
            IN  (prev # 0 /\ prev # NaN /\ curr # NaN) =>
                    /\ str.suffix = "%"
                    /\ str.num.kind = "num"
                    /\ 2 * absValue(displayed(str.num) * prev
                                        - (curr - prev) * 1000)
                           <= absValue(prev)
                    /\ str.prefix = (IF displayed(str.num) >= 0 THEN "+" ELSE "")
                    /\ str.num.neg <=> displayed(str.num) < 0
                    /\ (curr = 1000 /\ prev = 500) =>
                           str = [prefix |-> "+", num |-> numberString(1000),
                                  suffix |-> "%"]
                    /\ (curr = 0 /\ prev = 500) =>
                           str = [prefix |-> "", num |-> numberString(-1000),
                                  suffix |-> "%"]
                    /\ curr = prev =>
                           str = [prefix |-> "+", num |-> numberString(0),
                                  suffix |-> "%"]

-----------------------------------------------------------------------------
(* C14 *)

countMetrics == {"uniqueUsers", "totalSessions", "peakOccupancy"}

differenceOf(metric) ==
    IF metric = "uniqueUsers" THEN comparison.uniqueUsersChange
    ELSE IF metric = "totalSessions" THEN comparison.totalSessionsChange
    ELSE comparison.peakOccupancyChange

\* C14: for uniqueUsers, totalSessions and peakOccupancy the delta string
\* is the integer curr - prev, with a leading "+" when it is >= 0 and a
\* leading "-" otherwise; 12 vs 9 gives "+3".
C14_SignedDifference ==
    rpc = "return" =>
        \A metric \in countMetrics :
            LET diff == currentTotalStats[metric] - previousTotalStats[metric]
                str == differenceOf(metric)
            IN  /\ str.suffix = ""
                /\ str.num.kind = "num"
                /\ str.num.frac = 0
                /\ str.num.int = absValue(diff)
                /\ str.num.neg <=> diff < 0
                /\ str.prefix = (IF diff >= 0 THEN "+" ELSE "")

\* 12 unique users against 9.
C14_Witness ==
    /\ rpc = "return"
    /\ currentTotalStats.uniqueUsers = 12
    /\ previousTotalStats.uniqueUsers = 9
    /\ comparison.uniqueUsersChange
           = [prefix |-> "+", num |-> numberString(30), suffix |-> ""]

-----------------------------------------------------------------------------
(* generateComparisonData *)

\* new Date(year, month - 1, day, hh, mi, ss): the local time with these
\* fields; a day past the end of the month runs on into the next month.
localTime(y, m, d, hh, mi, ss, zone) ==
    (DaysFromCivil(y, m, 1) + (d - 1)) * SecondsPerDay
        + hh * SecondsPerHour + mi * SecondsPerMinute + ss
        - zone * SecondsPerMinute

\* computePeriod with the windows ending at 00:00:00 of the current day.
computePeriodMidnight(currentDate, zone) ==
    LET local == localDate(currentDate, zone)
        currentYear == local[1]
        currentMonth == local[2]
        currentDay == local[3]
        previousMonth == IF currentMonth = 1 THEN 12 ELSE currentMonth - 1
        previousYear == IF currentMonth = 1 THEN currentYear - 1 ELSE currentYear
    IN  [currentDate |-> currentDate,
         currentYear |-> currentYear, currentMonth |-> currentMonth,
         currentDay |-> currentDay,
         previousYear |-> previousYear, previousMonth |-> previousMonth,
         currentMonthStart |->
             localTime(currentYear, currentMonth, 1, 0, 0, 0, zone),
         currentMonthEnd |->
             localTime(currentYear, currentMonth, currentDay, 0, 0, 0, zone),
         previousMonthStart |->
             localTime(previousYear, previousMonth, 1, 0, 0, 0, zone),
         previousMonthEnd |->
             localTime(previousYear, previousMonth, currentDay, 0, 0, 0, zone)]

\* The two windows, from the clock reading currentDate.
computePeriod(currentDate, zone) ==
    LET local == localDate(currentDate, zone)
        currentYear == local[1]
        currentMonth == local[2]
        currentDay == local[3]
        previousMonth == IF currentMonth = 1 THEN 12 ELSE currentMonth - 1
        previousYear == IF currentMonth = 1 THEN currentYear - 1 ELSE currentYear
    IN  [currentDate |-> currentDate,
         currentYear |-> currentYear, currentMonth |-> currentMonth,
         currentDay |-> currentDay,
         previousYear |-> previousYear, previousMonth |-> previousMonth,
         currentMonthStart |->
             localTime(currentYear, currentMonth, 1, 0, 0, 0, zone),
         currentMonthEnd |->
             localTime(currentYear, currentMonth, currentDay, 23, 59, 59, zone),
         previousMonthStart |->
             localTime(previousYear, previousMonth, 1, 0, 0, 0, zone),
         previousMonthEnd |->
             localTime(previousYear, previousMonth, currentDay, 23, 59, 59,
                       zone)]

\* records.filter(checkin >= start && checkin <= end); a comparison with an
\* Invalid Date is false.
filterWindow(recs, start, end) ==
    LET inWindow(r) ==
            LET checkin == parseDateTime(r.checkin)
            IN  checkin # NaN /\ checkin >= start /\ checkin <= end
    IN  SelectSeq(recs, inWindow)

\* The accumulator objects live in a heap: one list of objects for each of
\* hourlyOccupancy, dailyStats and allTimeSlots; a reference is a position.
emptyHeap == [hourlyOccupancy |-> <<>>, dailyStats |-> <<>>, allTimeSlots |-> <<>>]

\* Accumulators of which hourlyOccupancy is one object for all calls.
newPassObjectsShared(h) ==
    [hourlyOccupancy |-> 1,
     dailyStats |-> Len(h.dailyStats) + 1,
     allTimeSlots |-> Len(h.allTimeSlots) + 1]

\* const hourlyOccupancy = {}; const dailyStats = {}; const allTimeSlots = []:
\* each call of calculateHourlyOccupancy creates its own three objects.
newPassObjects(h) ==
    [hourlyOccupancy |-> Len(h.hourlyOccupancy) + 1,
     dailyStats |-> Len(h.dailyStats) + 1,
     allTimeSlots |-> Len(h.allTimeSlots) + 1]

\* The object at a reference; a new object has the given initial value.
deref(objects, ref, initial) ==
    IF ref <= Len(objects) THEN objects[ref] ELSE initial

store(objects, ref, value) ==
    IF ref <= Len(objects) THEN [objects EXCEPT ![ref] = value]
    ELSE Append(objects, value)

\* The heap after one call calculateHourlyOccupancy(recs) that works on the
\* objects refs.
heapAfterPass(h, refs, recs, zone) ==
    LET start ==
            [hourlyOccupancy |->
                 deref(h.hourlyOccupancy, refs.hourlyOccupancy,
                       emptyPass.hourlyOccupancy),
             dailyStats |->
                 deref(h.dailyStats, refs.dailyStats, emptyPass.dailyStats),
             allTimeSlots |->
                 deref(h.allTimeSlots, refs.allTimeSlots,
                       emptyPass.allTimeSlots),
             timeSlots |-> <<>>,
             warnings |-> <<>>]
        acc == forEachRecord(start, recs, 0, zone)
    IN  [hourlyOccupancy |->
             store(h.hourlyOccupancy, refs.hourlyOccupancy,
                   acc.hourlyOccupancy),
         dailyStats |->
             store(h.dailyStats, refs.dailyStats,
                   convertUniqueUsers(acc.dailyStats)),
         allTimeSlots |->
             store(h.allTimeSlots, refs.allTimeSlots, acc.allTimeSlots)]

\* The month data a reference triple denotes.
monthData(h, refs) ==
    [hourlyOccupancy |-> h.hourlyOccupancy[refs.hourlyOccupancy],
     dailyStats |-> h.dailyStats[refs.dailyStats],
     allTimeSlots |-> h.allTimeSlots[refs.allTimeSlots]]

\* Clock readings at the call: 2024-03-31, 2024-01-15 and 2024-04-15, noon
\* in Tokyo.
Instants ==
    { parseDateTime(Ts(2024, 3, 31, 12, 0, 0, 540)),
      parseDateTime(Ts(2024, 1, 15, 12, 0, 0, 540)),
      parseDateTime(Ts(2024, 4, 15, 12, 0, 0, 540)) }

\* Rows of visits of 30 minutes in December 2023 to April 2024, and a row
\* with a malformed checkin.
ReportRows ==
    { Row("a", Ts(2024, 3, 1, 10, 0, 0, 540), Ts(2024, 3, 1, 10, 30, 0, 540),
          <<0, 30, 0>>),
      Row("b", Ts(2024, 3, 31, 18, 0, 0, 540), Ts(2024, 3, 31, 18, 30, 0, 540),
          <<0, 30, 0>>),
      Row("a", Ts(2024, 3, 20, 10, 0, 0, 540), Ts(2024, 3, 20, 10, 30, 0, 540),
          <<0, 30, 0>>),
      Row("a", Ts(2024, 2, 10, 10, 0, 0, 540), Ts(2024, 2, 10, 10, 30, 0, 540),
          <<0, 30, 0>>),
      Row("b", Ts(2024, 1, 10, 10, 0, 0, 540), Ts(2024, 1, 10, 10, 30, 0, 540),
          <<0, 30, 0>>),
      Row("a", Ts(2023, 12, 10, 10, 0, 0, 540),
          Ts(2023, 12, 10, 10, 30, 0, 540), <<0, 30, 0>>),
      Row("b", Ts(2024, 4, 10, 10, 0, 0, 540), Ts(2024, 4, 10, 10, 30, 0, 540),
          <<0, 30, 0>>),
      Row("a", BadTs, Ts(2024, 3, 30, 8, 40, 0, 540), <<0, 30, 0>>) }

ReportRecordLists == UNION {[1 .. n -> ReportRows] : n \in 0 .. MaxRecords}

InitReport ==
    /\ passIdle
    /\ usersIdle
    /\ tz \in Zones
    /\ clock \in Instants
    /\ allRecords \in ReportRecordLists
    /\ period = <<>>
    /\ currentMonthRecords = <<>>
    /\ previousMonthRecords = <<>>
    /\ heap = emptyHeap
    /\ currentMonthData = 0
    /\ previousMonthData = 0
    /\ currentTotalStats = noStats
    /\ previousTotalStats = noStats
    /\ comparison = <<>>
    /\ metadata = <<>>
    /\ rpc = "start"

\* const currentDate = new Date() ... the two filters.
FilterWindows ==
    /\ rpc = "start"
    /\ LET p == computePeriod(clock, tz)
       IN  /\ period' = p
           /\ currentMonthRecords'
                  = filterWindow(allRecords, p.currentMonthStart,
                                 p.currentMonthEnd)
           /\ previousMonthRecords'
                  = filterWindow(allRecords, p.previousMonthStart,
                                 p.previousMonthEnd)
    /\ rpc' = "currentPass"
    /\ UNCHANGED <<tz, passVars, userVars, clock, allRecords, heap,
                   currentMonthData, previousMonthData, currentTotalStats,
                   previousTotalStats, comparison, metadata>>

\* const currentMonthData = calculateHourlyOccupancy(currentMonthRecords)
CurrentPass ==
    /\ rpc = "currentPass"
    /\ LET refs == newPassObjects(heap)
       IN  /\ heap' = heapAfterPass(heap, refs, currentMonthRecords, tz)
           /\ currentMonthData' = refs
    /\ rpc' = "previousPass"
    /\ UNCHANGED <<tz, passVars, userVars, clock, allRecords, period,
                   currentMonthRecords, previousMonthRecords,
                   previousMonthData, currentTotalStats, previousTotalStats,
                   comparison, metadata>>

\* const previousMonthData = calculateHourlyOccupancy(previousMonthRecords)
PreviousPass ==
    /\ rpc = "previousPass"
    /\ LET refs == newPassObjects(heap)
       IN  /\ heap' = heapAfterPass(heap, refs, previousMonthRecords, tz)
           /\ previousMonthData' = refs
    /\ rpc' = "currentStats"
    /\ UNCHANGED <<tz, passVars, userVars, clock, allRecords, period,
                   currentMonthRecords, previousMonthRecords,
                   currentMonthData, currentTotalStats, previousTotalStats,
                   comparison, metadata>>

\* const currentTotalStats = calculateTotalStats(currentMonthData, ...)
CurrentStats ==
    /\ rpc = "currentStats"
    /\ currentTotalStats'
           = calculateTotalStats(monthData(heap, currentMonthData),
                                 currentMonthRecords)
    /\ rpc' = "previousStats"
    /\ UNCHANGED <<tz, passVars, userVars, clock, allRecords, period,
                   currentMonthRecords, previousMonthRecords, heap,
                   currentMonthData, previousMonthData, previousTotalStats,
                   comparison, metadata>>

\* const previousTotalStats = calculateTotalStats(previousMonthData, ...)
PreviousStats ==
    /\ rpc = "previousStats"
    /\ previousTotalStats'
           = calculateTotalStats(monthData(heap, previousMonthData),
                                 previousMonthRecords)
    /\ rpc' = "compare"
    /\ UNCHANGED <<tz, passVars, userVars, clock, allRecords, period,
                   currentMonthRecords, previousMonthRecords, heap,
                   currentMonthData, previousMonthData, currentTotalStats,
                   comparison, metadata>>

\* The return statement: the metadata, with generatedAt a second reading of
\* the clock, which may have moved on by then.
Return ==
    /\ rpc = "return"
    /\ period # <<>>
    /\ clock' \in {clock, clock + 1}
    /\ metadata' =
           [generatedAt |-> toISOString(clock'),
            currentPeriod |->
                [from |-> <<period.currentYear, period.currentMonth, 1>>,
                 to |-> <<period.currentYear, period.currentMonth,
                          period.currentDay>>],
            previousPeriod |->
                [from |-> <<period.previousYear, period.previousMonth, 1>>,
                 to |-> <<period.previousYear, period.previousMonth,
                          period.currentDay>>],
            comparisonDays |-> period.currentDay]
    /\ rpc' = "returned"
    /\ UNCHANGED <<tz, passVars, userVars, allRecords, period,
                   currentMonthRecords, previousMonthRecords, heap,
                   currentMonthData, previousMonthData, currentTotalStats,
                   previousTotalStats, comparison>>

NextReport ==
    \/ FilterWindows
    \/ CurrentPass
    \/ PreviousPass
    \/ CurrentStats
    \/ PreviousStats
    \/ Compare
    \/ Return

SpecReport == InitReport /\ [][NextReport]_vars

-----------------------------------------------------------------------------
(* Claims about generateComparisonData *)

passesDone == rpc \in {"currentStats", "previousStats", "compare", "return",
                       "returned"}

statsDone == rpc \in {"compare", "return", "returned"}

compared == rpc \in {"return", "returned"}

zeroPercent == [prefix |-> "", num |-> numberString(0), suffix |-> "%"]

plusZero == [prefix |-> "+", num |-> numberString(0), suffix |-> ""]

allZero(stats) ==
    /\ stats.totalHours = 0
    /\ stats.totalSessions = 0
    /\ stats.uniqueUsers = 0
    /\ stats.peakOccupancy = 0
    /\ stats.averageOccupancy = 0
    /\ stats.activeDays = 0

emptyData(data) ==
    /\ DOMAIN data.hourlyOccupancy = {}
    /\ DOMAIN data.dailyStats = {}

\* C11: on an empty record set calculateHourlyOccupancy returns no Buckets
\* and no DailyStats, calculateTotalStats returns 0 for totalHours,
\* totalSessions, uniqueUsers, peakOccupancy, averageOccupancy and
\* activeDays, and calculateComparison of two such summaries gives "0%" for
\* the percentage metrics and "+0" for the absolute ones.
C11_EmptyDegradesToZero ==
    /\ (passesDone /\ currentMonthRecords = <<>>) =>
           emptyData(monthData(heap, currentMonthData))
    /\ (passesDone /\ previousMonthRecords = <<>>) =>
           emptyData(monthData(heap, previousMonthData))
    /\ (statsDone /\ currentMonthRecords = <<>>) => allZero(currentTotalStats)
    /\ (statsDone /\ previousMonthRecords = <<>>) =>
           allZero(previousTotalStats)
    /\ (compared /\ currentMonthRecords = <<>> /\ previousMonthRecords = <<>>)
           => /\ \A metric \in percentMetrics : changeOf(metric) = zeroPercent
              /\ \A metric \in countMetrics : differenceOf(metric) = plusZero

C11_Witness ==
    /\ rpc = "returned"
    /\ currentMonthRecords = <<>>
    /\ previousMonthRecords = <<>>
    /\ comparison.totalHoursChange = zeroPercent
    /\ comparison.peakOccupancyChange = plusZero

\* The local calendar date of a row's checkin.
localCheckinDate(r) == localDate(parseDateTime(r.checkin), tz)

\* C15: every record of the reference set has its checkin in the calendar
\* month before the current one (December of the previous year for
\* January), on a day of the month up to the current one, and no record is
\* in both the current set and the reference set.
C15_ReferenceInPrecedingMonth ==
    rpc # "start" =>
        /\ \A i \in 1 .. Len(previousMonthRecords) :
               LET d == localCheckinDate(previousMonthRecords[i])
               IN  /\ d[1] = period.previousYear
                   /\ d[2] = period.previousMonth
                   /\ d[3] <= period.currentDay
        /\ \A i \in 1 .. Len(previousMonthRecords) :
               \A j \in 1 .. Len(currentMonthRecords) :
                   previousMonthRecords[i] # currentMonthRecords[j]

\* C16 as stated: a record is in the current set exactly when
\* month start <= checkin <= current instant.
C16_CurrentThroughNow ==
    rpc # "start" =>
        LET upToNow(r) ==
                LET checkin == parseDateTime(r.checkin)
                IN  /\ checkin # NaN
                    /\ checkin >= period.currentMonthStart
                    /\ checkin <= period.currentDate
        IN  currentMonthRecords = SelectSeq(allRecords, upToNow)

\* C16, amended: a record is in the current set exactly when its checkin
\* falls, in local time, in the current calendar month on a day up to and
\* including the current day (up to 23:59:59 of that day).
C16_CurrentThroughEndOfDay ==
    rpc # "start" =>
        LET today == localDate(period.currentDate, tz)
            upToToday(r) ==
                /\ parseDateTime(r.checkin) # NaN
                /\ localCheckinDate(r)[1] = today[1]
                /\ localCheckinDate(r)[2] = today[2]
                /\ localCheckinDate(r)[3] <= today[3]
        IN  currentMonthRecords = SelectSeq(allRecords, upToToday)

C16_Witness ==
    /\ rpc = "returned"
    /\ \E i \in 1 .. Len(currentMonthRecords) :
           parseDateTime(currentMonthRecords[i].checkin) > period.currentDate

\* C17: the windows, the record sets and the metadata of the report are
\* the same whatever the wall clock shows when generateComparisonData runs.
C17_IndependentOfClock ==
    rpc = "returned" =>
        \A c \in Instants :
            LET p == computePeriod(c, tz)
            IN  /\ currentMonthRecords
                       = filterWindow(allRecords, p.currentMonthStart,
                                      p.currentMonthEnd)
                /\ previousMonthRecords
                       = filterWindow(allRecords, p.previousMonthStart,
                                      p.previousMonthEnd)
                /\ metadata.comparisonDays = p.currentDay
                /\ metadata.currentPeriod.to
                       = <<p.currentYear, p.currentMonth, p.currentDay>>

\* The month data and summaries when the reference pass runs first.
swappedReport ==
    LET previousRefs == newPassObjects(emptyHeap)
        h1 == heapAfterPass(emptyHeap, previousRefs, previousMonthRecords, tz)
        currentRefs == newPassObjects(h1)
        h2 == heapAfterPass(h1, currentRefs, currentMonthRecords, tz)
    IN  [currentMonthData |-> monthData(h2, currentRefs),
         previousMonthData |-> monthData(h2, previousRefs),
         currentTotalStats |->
             calculateTotalStats(monthData(h2, currentRefs),
                                 currentMonthRecords),
         previousTotalStats |->
             calculateTotalStats(monthData(h2, previousRefs),
                                 previousMonthRecords)]

\* C20: the reference pass leaves the Buckets, DailyStats and slot list of
\* the current window as they were, and the month data and summaries are
\* the ones obtained when the two passes run in the other order.
C20_PassesIndependent ==
    /\ [](passesDone =>
              /\ monthData(heap, currentMonthData)
                     = swappedReport.currentMonthData
              /\ monthData(heap, previousMonthData)
                     = swappedReport.previousMonthData)
    /\ [](statsDone =>
              /\ currentTotalStats = swappedReport.currentTotalStats
              /\ previousTotalStats = swappedReport.previousTotalStats)
    /\ [][rpc = "previousPass" =>
              monthData(heap', currentMonthData)
                  = monthData(heap, currentMonthData)]_vars

C20_Witness ==
    /\ rpc = "returned"
    /\ currentMonthRecords # <<>>
    /\ previousMonthRecords # <<>>
    /\ currentMonthData # previousMonthData
    /\ DOMAIN monthData(heap, currentMonthData).hourlyOccupancy # {}
    /\ DOMAIN monthData(heap, previousMonthData).hourlyOccupancy # {}

-----------------------------------------------------------------------------
(* C18 *)

RECURSIVE sumMembers(_)
sumMembers(users) ==
    IF users = <<>> THEN 0
    ELSE Head(users).duration + sumMembers(Tail(users))

\* The slots so far that fell in the hour k.
slotsIn(k) == {j \in 1 .. Len(allTimeSlots) : allTimeSlots[j].slot.dateHour = k}

\* C18: at every point of a pass each Bucket has count >= 1, count equal to
\* the length of its member list and to the number of slots that fell in
\* its hour (so no Bucket without a slot), and summed duration equal to the
\* sum of its members' durations; from one row to the next no Bucket
\* disappears and no count or summed duration decreases.
C18_BucketsAccumulate ==
    /\ [](pc = "forEach" =>
              \A k \in DOMAIN hourlyOccupancy :
                  /\ hourlyOccupancy[k].count >= 1
                  /\ hourlyOccupancy[k].count = Len(hourlyOccupancy[k].users)
                  /\ hourlyOccupancy[k].totalMinutes
                         = sumMembers(hourlyOccupancy[k].users)
                  /\ slotsIn(k) # {}
                  /\ hourlyOccupancy[k].count = Cardinality(slotsIn(k)))
    /\ [][\A k \in DOMAIN hourlyOccupancy :
              /\ k \in DOMAIN hourlyOccupancy'
              /\ hourlyOccupancy'[k].count >= hourlyOccupancy[k].count
              /\ hourlyOccupancy'[k].totalMinutes
                     >= hourlyOccupancy[k].totalMinutes]_vars

C18_Witness ==
    /\ pc = "forEach"
    /\ index = 2
    /\ \E k \in DOMAIN hourlyOccupancy :
           /\ hourlyOccupancy[k].count = 2
           /\ hourlyOccupancy[k].totalMinutes
                  = hourlyOccupancy[k].users[1].duration
                        + hourlyOccupancy[k].users[2].duration
    /\ \E k \in DOMAIN hourlyOccupancy : hourlyOccupancy[k].count = 1

-----------------------------------------------------------------------------
(* process-csv.js: processCSV and calculateUserStats.  Its parseStayTime
   and parseDateTime are the code of the main script's, word for word. *)

\* getYearMonth(date): year and month of the local clock; both are NaN for
\* an Invalid Date.
getYearMonth(date, zone) ==
    IF date = NaN THEN <<NaN, NaN>>
    ELSE <<localDate(date, zone)[1], localDate(date, zone)[2]>>

\* date.setMonth(monthIndex): the local fields with the month replaced; a
\* month index outside 0..11 moves the year, a day past the end of the
\* month runs on into the next month.
setMonth(date, monthIndex, zone) ==
    LET local == date + zone * SecondsPerMinute
        fields == CivilFromDays(local \div SecondsPerDay)
        y == fields[1] + (monthIndex \div 12)
        m == (monthIndex % 12) + 1
    IN  (DaysFromCivil(y, m, 1) + (fields[3] - 1)) * SecondsPerDay
            + (local % SecondsPerDay) - zone * SecondsPerMinute

\* isWithinPeriod(date, months), with now the reading of new Date().
isWithinPeriod(date, months, now, zone) ==
    LET cutoffDate == setMonth(now, localDate(now, zone)[2] - 1 - months, zone)
    IN  date # NaN /\ date >= cutoffDate

isJulyOnly(date, zone) == getYearMonth(date, zone) = <<2025, 7>>

isAugustOnly(date, zone) == getYearMonth(date, zone) = <<2025, 8>>

\* The 'data' handler for one row: the records after it.  A field that is
\* missing or empty is falsy; NaN <= 0 is false.
onData(recs, row, zone) ==
    IF row.name = "" \/ row.checkin.kind = "empty" \/ row.stay = <<>>
    THEN recs
    ELSE LET checkinDate == parseDateTime(row.checkin)
             stayMinutes == parseStayTime(row.stay)
         IN  IF stayMinutes # NaN /\ stayMinutes <= 0
             THEN recs
             ELSE Append(recs,
                         [customerName |-> row.name,
                          checkinDate |-> checkinDate,
                          stayMinutes |-> stayMinutes,
                          yearMonth |-> getYearMonth(checkinDate, zone)])

\* The first loop of calculateUserStats.  A Date object is truthy, Invalid
\* Date too, and a comparison with an Invalid Date is false.
RECURSIVE recordFirstCheckIn(_, _)
recordFirstCheckIn(userFirstCheckIn, recs) ==
    IF recs = <<>> THEN userFirstCheckIn
    ELSE LET name == Head(recs).customerName
             checkinDate == Head(recs).checkinDate
             replace ==
                 \/ name \notin DOMAIN userFirstCheckIn
                 \/ /\ checkinDate # NaN
                    /\ userFirstCheckIn[name] # NaN
                    /\ checkinDate < userFirstCheckIn[name]
         IN  recordFirstCheckIn(
                 IF replace
                 THEN [x \in DOMAIN userFirstCheckIn \cup {name} |->
                          IF x = name THEN checkinDate
                          ELSE userFirstCheckIn[x]]
                 ELSE userFirstCheckIn,
                 Tail(recs))

\* The period argument of calculateUserStats: a number of months, 'july' or
\* 'august'.
monthsPeriod(n) == [named |-> "", months |-> n]
namedPeriod(name) == [named |-> name, months |-> 1]

inPeriod(record, forPeriod, now, zone) ==
    IF forPeriod.named = "july" THEN isJulyOnly(record.checkinDate, zone)
    ELSE IF forPeriod.named = "august" THEN isAugustOnly(record.checkinDate, zone)
    ELSE isWithinPeriod(record.checkinDate, forPeriod.months, now, zone)

\* filteredRecords.forEach: userStats by user and year-month, and the
\* users in the order in which they were first seen.
RECURSIVE groupRecords(_, _)
groupRecords(grouped, recs) ==
    IF recs = <<>> THEN grouped
    ELSE LET name == Head(recs).customerName
             ym == Head(recs).yearMonth
             months == IF name \in DOMAIN grouped.userStats
                       THEN grouped.userStats[name]
                       ELSE [k \in {} |-> 0]
             old == IF ym \in DOMAIN months THEN months[ym]
                    ELSE [count |-> 0, totalMinutes |-> 0]
             new == [count |-> old.count + 1,
                     totalMinutes |->
                         numAdd(old.totalMinutes, Head(recs).stayMinutes)]
             months2 == [k \in DOMAIN months \cup {ym} |->
                            IF k = ym THEN new ELSE months[k]]
         IN  groupRecords(
                 [userStats |->
                      [x \in DOMAIN grouped.userStats \cup {name} |->
                          IF x = name THEN months2 ELSE grouped.userStats[x]],
                  order |-> IF name \in DOMAIN grouped.userStats
                            THEN grouped.order
                            ELSE Append(grouped.order, name)],
                 Tail(recs))

RECURSIVE sumMonths(_, _)
sumMonths(monthlyData, field) ==
    IF DOMAIN monthlyData = {} THEN 0
    ELSE LET ym == CHOOSE k \in DOMAIN monthlyData : TRUE
         IN  numAdd(monthlyData[ym][field],
                    sumMonths([k \in DOMAIN monthlyData \ {ym} |->
                                  monthlyData[k]], field))

\* Math.round(x * 10) / 10 in tenths, NaN staying NaN.
roundTenths(num, den) == IF num = NaN THEN NaN ELSE mathRound(num * 10, den)

\* One entry of result; the times are in seconds.
userEntry(userName, monthlyData, periodLength, userFirstCheckIn) ==
    LET totalVisits == sumMonths(monthlyData, "count")
        totalMinutes == sumMonths(monthlyData, "totalMinutes")
    IN  [name |-> userName,
         monthlyVisits |-> roundTenths(totalVisits, periodLength),
         monthlyHours |->
             roundTenths(totalMinutes, SecondsPerHour * periodLength),
         activeMonths |-> Cardinality(DOMAIN monthlyData),
         totalVisits |-> totalVisits,
         totalHours |-> roundTenths(totalMinutes, SecondsPerHour),
         firstCheckIn |-> isoDate(userFirstCheckIn[userName])]

\* result.sort((a, b) => b.monthlyVisits - a.monthlyVisits): stable, by
\* falling monthlyVisits.
RECURSIVE sortByMonthlyVisits(_)
sortByMonthlyVisits(result) ==
    IF result = <<>> THEN <<>>
    ELSE LET sorted == sortByMonthlyVisits(SubSeq(result, 1, Len(result) - 1))
             last == result[Len(result)]
             n == Cardinality({i \in 1 .. Len(sorted) :
                                  sorted[i].monthlyVisits >= last.monthlyVisits})
         IN  SubSeq(sorted, 1, n) \o <<last>>
                 \o SubSeq(sorted, n + 1, Len(sorted))

\* calculateUserStats(records, period).  toISOString of an Invalid Date
\* throws a RangeError, which nothing catches.
calculateUserStats(recs, forPeriod, now, zone) ==
    LET periodLength == forPeriod.months
        userFirstCheckIn == recordFirstCheckIn([k \in {} |-> 0], recs)
        inThePeriod(record) == inPeriod(record, forPeriod, now, zone)
        filteredRecords == SelectSeq(recs, inThePeriod)
        grouped == groupRecords([userStats |-> [k \in {} |-> 0],
                                 order |-> <<>>], filteredRecords)
    IN  IF \E i \in 1 .. Len(grouped.order) :
               userFirstCheckIn[grouped.order[i]] = NaN
        THEN [threw |-> "RangeError", result |-> <<>>]
        ELSE [threw |-> "",
              result |->
                  sortByMonthlyVisits(
                      [i \in 1 .. Len(grouped.order) |->
                          userEntry(grouped.order[i],
                                    grouped.userStats[grouped.order[i]],
                                    periodLength, userFirstCheckIn)])]

\* The 'end' handler: the three statistics, or the error one of them threw.
onEnd(recs, now, generatedAt, zone) ==
    LET sixMonthStats == calculateUserStats(recs, monthsPeriod(6), now, zone)
        julyStats == calculateUserStats(recs, namedPeriod("july"), now, zone)
        augustStats == calculateUserStats(recs, namedPeriod("august"), now,
                                          zone)
    IN  IF sixMonthStats.threw # "" \/ julyStats.threw # ""
           \/ augustStats.threw # ""
        THEN [threw |-> "RangeError"]
        ELSE [threw |-> "",
              sixMonthData |-> sixMonthStats.result,
              julyData |-> julyStats.result,
              augustData |-> augustStats.result,
              metadata |-> [totalRecords |-> Len(recs), uniqueUsers |-> 0,
                            generatedAt |-> toISOString(generatedAt)]]

\* Clock readings at the run: 2025-08-31 and 2025-09-10, noon in Tokyo.
UserInstants ==
    { parseDateTime(Ts(2025, 8, 31, 12, 0, 0, 540)),
      parseDateTime(Ts(2025, 9, 10, 12, 0, 0, 540)) }

\* Rows of nihouse.csv: well-formed ones, and rows with a malformed or
\* missing checkin or an unparsable or zero stay.
CsvRows ==
    { Row("a", Ts(2025, 8, 10, 10, 0, 0, 540), NoTs, <<0, 30, 0>>),
      Row("a", Ts(2025, 7, 5, 10, 0, 0, 540), NoTs, <<1, 0, 0>>),
      Row("b", Ts(2025, 8, 10, 10, 0, 0, 540), NoTs, <<0, 30, 0>>),
      Row("b", Ts(2025, 1, 5, 10, 0, 0, 540), NoTs, <<0, 30, 0>>),
      Row("a", BadTs, NoTs, <<0, 30, 0>>),
      Row("a", Ts(2025, 8, 12, 10, 0, 0, 540), NoTs, <<NaN>>),
      Row("a", NoTs, NoTs, <<0, 30, 0>>),
      Row("b", Ts(2025, 8, 10, 10, 0, 0, 540), NoTs, <<0, 0, 0>>) }

CsvRowLists == UNION {[1 .. n -> CsvRows] : n \in 0 .. MaxRecords}

InitUsers ==
    /\ passIdle
    /\ tz \in Zones
    /\ clock \in UserInstants
    /\ allRecords = <<>>
    /\ period = <<>>
    /\ currentMonthRecords = <<>>
    /\ previousMonthRecords = <<>>
    /\ heap = <<>>
    /\ currentMonthData = 0
    /\ previousMonthData = 0
    /\ currentTotalStats = noStats
    /\ previousTotalStats = noStats
    /\ comparison = <<>>
    /\ metadata = <<>>
    /\ rpc = "off"
    /\ csvRows \in CsvRowLists
    /\ rowIndex = 0
    /\ userRecords = <<>>
    /\ userResult = <<>>
    /\ upc = "data"

\* .on('data', (row) => ...)
OnData ==
    /\ upc = "data"
    /\ rowIndex < Len(csvRows)
    /\ userRecords' = onData(userRecords, csvRows[rowIndex + 1], tz)
    /\ rowIndex' = rowIndex + 1
    /\ UNCHANGED <<tz, passVars, reportVars, csvRows, userResult, upc>>

\* .on('end', () => ...): the clock may have moved on when generatedAt
\* is read.
OnEnd ==
    /\ upc = "data"
    /\ rowIndex = Len(csvRows)
    /\ clock' \in {clock, clock + 1}
    /\ userResult' = onEnd(userRecords, clock, clock', tz)
    /\ upc' = IF userResult'.threw = "" THEN "resolved" ELSE "threw"
    /\ UNCHANGED <<tz, passVars, allRecords, period, currentMonthRecords,
                   previousMonthRecords, heap, currentMonthData,
                   previousMonthData, currentTotalStats, previousTotalStats,
                   comparison, metadata, rpc, csvRows, rowIndex, userRecords>>

NextUsers == OnData \/ OnEnd

SpecUsers == InitUsers /\ [][NextUsers]_vars

\* A row with all its fields present and parsable, and a positive stay.
wellFormed(row) ==
    /\ row.name # ""
    /\ parseDateTime(row.checkin) # NaN
    /\ parseStayTime(row.stay) # NaN
    /\ parseStayTime(row.stay) > 0

RECURSIVE onAllData(_, _, _)
onAllData(recs, rows, zone) ==
    IF rows = <<>> THEN recs
    ELSE onAllData(onData(recs, Head(rows), zone), Tail(rows), zone)

\* C19: the run over rows of which some have a malformed checkin or an
\* unparsable stay completes, and its statistics (firstCheckIn, totalVisits,
\* totalHours and the rest) are those of the run over the well-formed rows
\* alone, whatever the order of the rows.
C19_MalformedRowsDropped ==
    upc \in {"resolved", "threw"} =>
        LET clean == onEnd(onAllData(<<>>, SelectSeq(csvRows, wellFormed), tz),
                           clock, clock, tz)
        IN  /\ upc = "resolved"
            /\ userResult.sixMonthData = clean.sixMonthData
            /\ userResult.julyData = clean.julyData
            /\ userResult.augustData = clean.augustData

-----------------------------------------------------------------------------
(* C21 *)

\* The sum of Bucket.totalMinutes over all buckets, in seconds.
sumBucketMinutes ==
    sumOver([k \in DOMAIN hourlyOccupancy |-> hourlyOccupancy[k].totalMinutes],
            DOMAIN hourlyOccupancy)

\* C21: after a pass the sum of Bucket.totalMinutes over all buckets is 60
\* times the sum of DailyStat.totalHours over all days (both are kept in
\* seconds here, so the two sums are equal).
C21_SlotAndSessionTotalsAgree ==
    pc \in {"stats", "done"} => sumBucketMinutes = sumHours(dailyStats)

-----------------------------------------------------------------------------
(* C22 *)

\* C22: the slots of the visit just decomposed have pairwise distinct
\* bucket keys, and for a period with at least one bucket
\* 1 <= averageOccupancy <= peakOccupancy <= totalSessions
\* (averageOccupancy is kept in tenths).
C22_DistinctBucketsAndOrdering ==
    /\ \A i, j \in 1 .. Len(timeSlots) :
           i # j => timeSlots[i].dateHour # timeSlots[j].dateHour
    /\ (pc = "done" /\ DOMAIN hourlyOccupancy # {}) =>
           /\ 10 <= totalStats.averageOccupancy
           /\ totalStats.averageOccupancy <= 10 * totalStats.peakOccupancy
           /\ totalStats.peakOccupancy <= totalStats.totalSessions

====
